---- MODULE Spec2Model ----
(***************************************************************************)
(* A model of easyfuse: the inode registry (EasyFuse in src/src/lib.rs),   *)
(* the static resources (src/src/resource/file.rs, dir.rs), the capability *)
(* wrappers (src/src/resource/mod.rs) and the Filesystem dispatch methods  *)
(* getattr, readdir and read of lib.rs.                                    *)
(***************************************************************************)
EXTENDS Integers, Sequences, FiniteSets, TLC

\* u64::MAX of Inode(u64), scaled down: the largest value the counter holds.
U64Max == 4

\* const ROOT_ID: Inode = Inode(1)
ROOT_ID == 1

\* Option<T> and Result<T, c_int> values.
NoneV == [tag |-> "None"]
SomeV(x) == [tag |-> "Some", v |-> x]
Ok(x) == [tag |-> "Ok", v |-> x]
Err(e) == [tag |-> "Err", code |-> e]

\* Identifiers a caller can pass: every u64 of the scaled width.
Inodes == 0..U64Max

\* Identifiers the kernel asks about: the ones the registry can have bound,
\* bound or not at the time of the call.
DispatchInodes == ROOT_ID..(U64Max - 1)

\* The resource cells (Rc<RefCell<dyn Resource>>) the embedding application
\* built; a cell can be handed to the registry any number of times.
Cells == {"dir", "fileA", "fileB", "obj"}

\* Names a StaticDirectory binds.
Names == {"a", "b"}

\* The 30 bytes of fileA and the 2 bytes of fileB.
ContentA == [i \in 1..30 |-> 64 + i]
ContentB == <<104, 105>>

\* returns::Attr as the application built it, before any getattr.  The ino
\* placeholders differ from every identifier the registry hands out.
MkAttr(ino, kind, perm, uid, gid, ttl) ==
    [ttl |-> ttl,
     inner |-> [ino |-> ino, size |-> 0, blocks |-> 0, kind |-> kind,
                perm |-> perm, nlink |-> 0, uid |-> uid, gid |-> gid]]

\* 0o555 = 365, 0o640 = 416, 0o444 = 292
InitCells ==
    [c \in Cells |->
       CASE c = "dir"   -> [type |-> "StaticDirectory", content |-> <<>>,
                            binds |-> <<>>,
                            attr |-> MkAttr(0, "Directory", 365, 1, 1, 0)]
         [] c = "fileA" -> [type |-> "StaticFile", content |-> ContentA,
                            binds |-> <<>>,
                            attr |-> MkAttr(9, "RegularFile", 416, 1, 1, 0)]
         [] c = "fileB" -> [type |-> "StaticFile", content |-> ContentB,
                            binds |-> <<>>,
                            attr |-> MkAttr(0, "Directory", 292, 2, 2, 5)]
         [] OTHER       -> [type |-> "Resource", content |-> <<>>,
                            binds |-> <<>>,
                            attr |-> MkAttr(0, "RegularFile", 292, 1, 1, 0)]]

VARIABLES
    nodes,        \* EasyFuse.nodes: BTreeMap<Inode, ResourceCell>
    next_inode,   \* EasyFuse.next_inode
    cells,        \* the state of every resource object
    last,         \* the last call: operation, arguments, return value or reply
    returned,     \* the identifiers register / try_register returned, in order
    removed,      \* the identifiers whose binding unregister removed
    borrowed,     \* per cell, the exclusive borrows (RefMut) of its RefCell now held
    frame         \* the dispatch in progress, when it is followed step by step

vars == <<nodes, next_inode, cells, last, returned, removed, borrowed, frame>>

\* BTreeMap::insert: the map with key k bound to v.
Insert(m, k, v) == [x \in (DOMAIN m) \cup {k} |-> IF x = k THEN v ELSE m[x]]
\* BTreeMap::remove: the map without key k.
Remove(m, k) == [x \in (DOMAIN m) \ {k} |-> m[x]]
\* BTreeMap::get(..).cloned()
Get(m, k) == IF k \in DOMAIN m THEN SomeV(m[k]) ELSE NoneV

\* A faulty variant: the sum wraps around instead of being refused.
checked_add_wrapping(x, y) == SomeV((x + y) % (U64Max + 1))
\* u64::checked_add
checked_add(x, y) == IF x + y > U64Max THEN NoneV ELSE SomeV(x + y)

\* EasyFuse::try_register: the return value and the registry after the call.
try_register(ns, nx, c) ==
    LET id == nx
        sum == checked_add(id, 1)
    IN  IF sum.tag = "None"
        THEN [ret |-> NoneV, nodes |-> ns, next_inode |-> nx]
        ELSE [ret |-> SomeV(id), nodes |-> Insert(ns, id, c), next_inode |-> sum.v]

\* Faulty variants: the counter is handed back the removed identifier; the map
\* is cut at the key (split_off) instead of losing one entry.
unregister_lowering(ns, nx, inode) ==
    [ret |-> Get(ns, inode), nodes |-> Remove(ns, inode),
     next_inode |-> IF inode \in DOMAIN ns /\ inode > ROOT_ID THEN inode ELSE nx]
unregister_split_off(ns, nx, inode) ==
    [ret |-> Get(ns, inode), nodes |-> [x \in {k \in DOMAIN ns : k < inode} |-> ns[x]],
     next_inode |-> nx]
\* EasyFuse::unregister
unregister(ns, nx, inode) ==
    [ret |-> Get(ns, inode), nodes |-> Remove(ns, inode), next_inode |-> nx]

\* A faulty variant: an identifier that is not bound falls back to the root.
resolve_or_root(ns, inode) ==
    IF inode \in DOMAIN ns THEN SomeV(ns[inode])
    ELSE IF ROOT_ID \in DOMAIN ns THEN SomeV(ns[ROOT_ID]) ELSE NoneV
\* EasyFuse::resolve
resolve(ns, inode) == Get(ns, inode)

\* A faulty variant: an existing root is kept (entry().or_insert()).
set_root_or_insert(ns, nx, c) ==
    [ret |-> Get(ns, ROOT_ID),
     nodes |-> IF ROOT_ID \in DOMAIN ns THEN ns ELSE Insert(ns, ROOT_ID, c),
     next_inode |-> nx]
\* EasyFuse::set_root
set_root(ns, nx, c) ==
    [ret |-> Get(ns, ROOT_ID), nodes |-> Insert(ns, ROOT_ID, c), next_inode |-> nx]

NoCall == [op |-> "new", ino |-> 0, arg |-> NoneV, ret |-> NoneV]
Panicked == last.ret.tag = "Panic"
Panic(msg) == [tag |-> "Panic", msg |-> msg]

\* A faulty variant: the counter starts at ROOT_ID itself.
default_from_root ==
    [nodes |-> <<>>, next_inode |-> ROOT_ID, cells |-> InitCells,
     returned |-> <<>>, removed |-> {}]
\* EasyFuse::default, beside the application's cells and the empty histories.
default ==
    [nodes |-> <<>>, next_inode |-> ROOT_ID + 1, cells |-> InitCells,
     returned |-> <<>>, removed |-> {}]

\* RefCell::new in cell.rs: no borrow is held.
Unborrowed == [c \in Cells |-> 0]

Init ==
    /\ borrowed = Unborrowed
    /\ frame = NoneV
    /\ nodes = default.nodes
    /\ next_inode = default.next_inode
    /\ cells = default.cells
    /\ returned = default.returned
    /\ removed = default.removed
    /\ last = NoCall

TryRegister ==
    /\ ~Panicked
    /\ \E c \in Cells :
         LET r == try_register(nodes, next_inode, c) IN
         /\ nodes' = r.nodes
         /\ next_inode' = r.next_inode
         /\ last' = [op |-> "try_register", ino |-> 0, arg |-> SomeV(c), ret |-> r.ret]
         /\ returned' = IF r.ret.tag = "Some" THEN Append(returned, r.ret.v) ELSE returned
    /\ UNCHANGED <<cells, removed, borrowed, frame>>

\* EasyFuse::register: try_register(..).expect("integer overflow")
Register ==
    /\ ~Panicked
    /\ \E c \in Cells :
         LET r == try_register(nodes, next_inode, c) IN
         /\ nodes' = r.nodes
         /\ next_inode' = r.next_inode
         /\ last' = [op |-> "register", ino |-> 0, arg |-> SomeV(c),
                     ret |-> IF r.ret.tag = "None" THEN Panic("integer overflow")
                             ELSE r.ret]
         /\ returned' = IF r.ret.tag = "Some" THEN Append(returned, r.ret.v) ELSE returned
    /\ UNCHANGED <<cells, removed, borrowed, frame>>

Unregister ==
    /\ ~Panicked
    /\ \E inode \in Inodes :
         LET r == unregister(nodes, next_inode, inode) IN
         /\ nodes' = r.nodes
         /\ next_inode' = r.next_inode
         /\ last' = [op |-> "unregister", ino |-> inode, arg |-> NoneV, ret |-> r.ret]
         /\ removed' = IF r.ret.tag = "Some" THEN removed \cup {inode} ELSE removed
    /\ UNCHANGED <<cells, returned, borrowed, frame>>

Resolve ==
    /\ ~Panicked
    /\ \E inode \in Inodes :
         last' = [op |-> "resolve", ino |-> inode, arg |-> NoneV,
                  ret |-> resolve(nodes, inode)]
    /\ UNCHANGED <<nodes, next_inode, cells, returned, removed, borrowed, frame>>

SetRoot ==
    /\ ~Panicked
    /\ \E c \in Cells :
         LET r == set_root(nodes, next_inode, c) IN
         /\ nodes' = r.nodes
         /\ next_inode' = r.next_inode
         /\ last' = [op |-> "set_root", ino |-> ROOT_ID, arg |-> SomeV(c), ret |-> r.ret]
    /\ UNCHANGED <<cells, returned, removed, borrowed, frame>>


(***************************************************************************)
(* Resources: StaticFile, StaticDirectory, the FileResource and            *)
(* DirectoryResource wrappers, and "obj", an application-written Resource  *)
(* whose getattr and read outcomes are inputs of the call.                 *)
(***************************************************************************)

\* What the application's own Resource may answer to getattr and to read.
ObjGetattr == {Err("ENOSYS"), Ok(MkAttr(6, "RegularFile", 292, 1, 1, 3))}
ObjRead == {Err("ENOSYS"), Ok(<<>>), Ok(<<1, 2, 3, 4, 5, 6>>)}

\* Callers (uid, gid) of a request, offsets (i64) and lengths (u32).
Callers == {<<1, 1>>, <<2, 2>>}
ReadOffsets == {-1, 0, 25, 30, 31}
ReadLens == {0, 5, 100}
DirOffsets == {-1, 0, 1, 2, 3, 4}

\* Permissions bits (newtypes.rs)
EXECUTE == 1
WRITE == 2
READ == 4

\* StaticFile::getattr: kind, size and blocks are rewritten, then returned.
StaticFile_getattr(r) ==
    LET n == Len(r.content)
        a == [r.attr EXCEPT !.inner.kind = "RegularFile",
                            !.inner.size = n,
                            !.inner.blocks = n \div 4096]
    IN  [self |-> [r EXCEPT !.attr = a], result |-> Ok(a)]

\* StaticDirectory::getattr
StaticDirectory_getattr(r) ==
    LET a == [r.attr EXCEPT !.inner.kind = "Directory"]
    IN  [self |-> [r EXCEPT !.attr = a], result |-> Ok(a)]

\* One entry of the call trace: method `op` of cell c's object was entered,
\* at the layer "Resource" (what the dispatcher or a directory calls through
\* the cell), "File" or "Directory" (what a wrapper passes on to the object
\* it wraps).
Call(c, layer, op) == [cell |-> c, layer |-> layer, op |-> op]

\* Resource::getattr through the cell's wrapper: FileResource and
\* DirectoryResource delegate; g is what an application Resource answers.
Resource_getattr(cs, c, g) ==
    CASE cs[c].type = "StaticFile" ->
            LET x == StaticFile_getattr(cs[c])
            IN  [cells |-> [cs EXCEPT ![c] = x.self], result |-> x.result,
                 calls |-> <<Call(c, "Resource", "getattr"), Call(c, "File", "getattr")>>]
      [] cs[c].type = "StaticDirectory" ->
            LET x == StaticDirectory_getattr(cs[c])
            IN  [cells |-> [cs EXCEPT ![c] = x.self], result |-> x.result,
                 calls |-> <<Call(c, "Resource", "getattr"), Call(c, "Directory", "getattr")>>]
      [] OTHER -> [cells |-> cs, result |-> g, calls |-> <<Call(c, "Resource", "getattr")>>]

\* A faulty variant: the group is compared before the owner.
perms_group_first(uid, gid, attrs) ==
    IF gid = attrs.gid THEN (attrs.perm \div 8) % 8
    ELSE IF uid = attrs.uid THEN (attrs.perm \div 64) % 8
    ELSE attrs.perm % 8
\* Request::perms: the octal digit selected for the caller.
perms(uid, gid, attrs) ==
    IF uid = attrs.uid THEN (attrs.perm \div 64) % 8
    ELSE IF gid = attrs.gid THEN (attrs.perm \div 8) % 8
    ELSE attrs.perm % 8

\* Permissions::contains for one required bit set.
contains(p, required) ==
    \A bit \in {EXECUTE, WRITE, READ} :
        ((required \div bit) % 2 = 1) => ((p \div bit) % 2 = 1)

\* Request::ensure_access
ensure_access(uid, gid, attrs, required) ==
    IF contains(perms(uid, gid, attrs), required) THEN Ok(<<>>) ELSE Err("EPERM")

\* i64 -> usize with unwrap_or(0): a negative offset becomes 0.
to_usize_or_0(x) == IF x < 0 THEN 0 ELSE x

Min(a, b) == IF a <= b THEN a ELSE b

\* A faulty variant: a start past the end is clamped to the end.
slice_get_clamped(content, start, end) ==
    SomeV(SubSeq(content, Min(start, Len(content)) + 1, end))
\* <[u8]>::get(start..end)
slice_get(content, start, end) ==
    IF start > end \/ end > Len(content) THEN NoneV
    ELSE SomeV(SubSeq(content, start + 1, end))

\* A faulty variant: the byte range is looked at before the permission.
StaticFile_read_range_first(r, uid, gid, offset, len) ==
    LET start == to_usize_or_0(offset)
        end == Min(start + len, Len(r.content))
        buf == slice_get(r.content, start, end)
        access == ensure_access(uid, gid, r.attr.inner, READ)
    IN  IF buf.tag = "None" THEN Err("ERANGE")
        ELSE IF access.tag = "Err" THEN access ELSE Ok(buf.v)
\* StaticFile::read
StaticFile_read(r, uid, gid, offset, len) ==
    LET access == ensure_access(uid, gid, r.attr.inner, READ) IN
    IF access.tag = "Err" THEN access
    ELSE
        LET start == to_usize_or_0(offset)
            end == Min(start + len, Len(r.content))
            buf == slice_get(r.content, start, end)
        IN  IF buf.tag = "None" THEN Err("ERANGE") ELSE Ok(buf.v)

\* Resource::read through the cell's wrapper: DirectoryResource answers EBADF,
\* FileResource delegates; b is what an application Resource answers.
Resource_read(cs, c, uid, gid, offset, len, b) ==
    CASE cs[c].type = "StaticFile" ->
            [result |-> StaticFile_read(cs[c], uid, gid, offset, len),
             calls |-> <<Call(c, "Resource", "read"), Call(c, "File", "read")>>]
      [] cs[c].type = "StaticDirectory" ->
            [result |-> Err("EBADF"), calls |-> <<Call(c, "Resource", "read")>>]
      [] OTHER -> [result |-> b, calls |-> <<Call(c, "Resource", "read")>>]

\* returns::DirEntry::new
DirEntry(inode, filetype, name) == [inode |-> inode, filetype |-> filetype, name |-> name]

\* StaticDirectory::readdir from the k-th bind of the iteration order `order`
\* (a HashMap iterates in an order of its own).  The directory's cell selfc is
\* mutably borrowed by the dispatcher during the whole call.
RECURSIVE StaticDirectory_readdir(_, _, _, _, _, _, _, _)
StaticDirectory_readdir(ns, cs, selfc, order, k, output, g, calls) ==
    IF k > Len(order)
    THEN [cells |-> cs, result |-> Ok(<<>>), output |-> output, calls |-> calls]
    ELSE
        LET path == order[k]
            inode == cs[selfc].binds[path]
            resource == resolve(ns, inode)
        IN  IF resource.tag = "None"
            THEN [cells |-> cs, output |-> output, calls |-> calls,
                  result |-> Panic("invalid inode bound to StaticDirectory")]
            ELSE IF resource.v = selfc
            THEN [cells |-> cs, output |-> output, calls |-> calls,
                  result |-> Panic("already borrowed")]
            ELSE
                LET stat == Resource_getattr(cs, resource.v, g) IN
                IF stat.result.tag = "Err"
                THEN [cells |-> stat.cells, output |-> output, result |-> stat.result,
                      calls |-> calls \o stat.calls]
                ELSE StaticDirectory_readdir(ns, stat.cells, selfc, order, k + 1,
                        Append(output, DirEntry(inode, stat.result.v.inner.kind, path)), g,
                        calls \o stat.calls)

\* Resource::readdir through the cell's wrapper: FileResource answers EBADF,
\* the Resource trait's default answers ENOSYS.
Resource_readdir(ns, cs, c, order, output, g) ==
    CASE cs[c].type = "StaticDirectory" ->
            StaticDirectory_readdir(ns, cs, c, order, 1, output, g,
                <<Call(c, "Resource", "readdir"), Call(c, "Directory", "readdir")>>)
      [] cs[c].type = "StaticFile" ->
            [cells |-> cs, output |-> output, result |-> Err("EBADF"),
             calls |-> <<Call(c, "Resource", "readdir")>>]
      [] OTHER -> [cells |-> cs, output |-> output, result |-> Err("ENOSYS"),
                   calls |-> <<Call(c, "Resource", "readdir")>>]

\* A faulty variant: the resource's own inode value is kept.
stamp_ino_kept(attr, ino) == attr
\* attr.inner.ino = ino.0
stamp_ino(attr, ino) == [attr EXCEPT !.inner.ino = ino]

\* returns::Entry::from(Attr)
Entry(attr) == [attr |-> attr, generation |-> 0]

\* A faulty variant: a bound identifier that does not resolve is ENOENT.
StaticDirectory_lookup_absent(ns, cs, selfc, path, g) ==
    IF path \notin DOMAIN cs[selfc].binds
    THEN [cells |-> cs, result |-> Err("ENOENT"), calls |-> <<>>]
    ELSE
        LET inode == cs[selfc].binds[path]
            resource == resolve(ns, inode)
        IN  IF resource.tag = "None"
            THEN [cells |-> cs, calls |-> <<>>, result |-> Err("ENOENT")]
            ELSE IF resource.v = selfc
            THEN [cells |-> cs, calls |-> <<>>, result |-> Panic("already borrowed")]
            ELSE
                LET stat == Resource_getattr(cs, resource.v, g) IN
                IF stat.result.tag = "Err"
                THEN [cells |-> stat.cells, result |-> stat.result, calls |-> stat.calls]
                ELSE [cells |-> stat.cells, calls |-> stat.calls,
                      result |-> Ok(Entry(stamp_ino(stat.result.v, inode)))]
\* StaticDirectory::lookup, called with the directory's cell selfc mutably
\* borrowed by the dispatcher.
StaticDirectory_lookup(ns, cs, selfc, path, g) ==
    IF path \notin DOMAIN cs[selfc].binds
    THEN [cells |-> cs, result |-> Err("ENOENT"), calls |-> <<>>]
    ELSE
        LET inode == cs[selfc].binds[path]
            resource == resolve(ns, inode)
        IN  IF resource.tag = "None"
            THEN [cells |-> cs, calls |-> <<>>,
                  result |-> Panic("invalid inode bound to StaticDirectory")]
            ELSE IF resource.v = selfc
            THEN [cells |-> cs, calls |-> <<>>, result |-> Panic("already borrowed")]
            ELSE
                LET stat == Resource_getattr(cs, resource.v, g) IN
                IF stat.result.tag = "Err"
                THEN [cells |-> stat.cells, result |-> stat.result, calls |-> stat.calls]
                ELSE [cells |-> stat.cells, calls |-> stat.calls,
                      result |-> Ok(Entry(stamp_ino(stat.result.v, inode)))]

\* A faulty variant: FileResource leaves lookup to the Resource trait's default.
Resource_lookup_by_default(ns, cs, c, path, g) ==
    CASE cs[c].type = "StaticDirectory" ->
            LET x == StaticDirectory_lookup(ns, cs, c, path, g)
            IN  [x EXCEPT !.calls = <<Call(c, "Resource", "lookup"),
                                      Call(c, "Directory", "lookup")>> \o x.calls]
      [] OTHER -> [cells |-> cs, result |-> Err("ENOSYS"),
                   calls |-> <<Call(c, "Resource", "lookup")>>]
\* Resource::lookup through the cell's wrapper: DirectoryResource delegates,
\* FileResource answers EBADF, the Resource trait's default answers ENOSYS.
Resource_lookup(ns, cs, c, path, g) ==
    CASE cs[c].type = "StaticDirectory" ->
            LET x == StaticDirectory_lookup(ns, cs, c, path, g)
            IN  [x EXCEPT !.calls = <<Call(c, "Resource", "lookup"),
                                      Call(c, "Directory", "lookup")>> \o x.calls]
      [] cs[c].type = "StaticFile" ->
            [cells |-> cs, result |-> Err("EBADF"),
             calls |-> <<Call(c, "Resource", "lookup")>>]
      [] OTHER -> [cells |-> cs, result |-> Err("ENOSYS"),
                   calls |-> <<Call(c, "Resource", "lookup")>>]

\* What the application's own Resource may answer to symlink.
ObjSymlink == {Err("ENOSYS"), Ok(Entry(MkAttr(6, "Symlink", 511, 1, 1, 3)))}

\* Resource::symlink through the cell's wrapper: DirectoryResource delegates
\* to Directory::symlink, which StaticDirectory leaves at the default ENOSYS;
\* FileResource answers EBADF; y is what an application Resource answers.
Resource_symlink(cs, c, y) ==
    CASE cs[c].type = "StaticDirectory" ->
            [result |-> Err("ENOSYS"),
             calls |-> <<Call(c, "Resource", "symlink"), Call(c, "Directory", "symlink")>>]
      [] cs[c].type = "StaticFile" ->
            [result |-> Err("EBADF"), calls |-> <<Call(c, "Resource", "symlink")>>]
      [] OTHER -> [result |-> y, calls |-> <<Call(c, "Resource", "symlink")>>]

\* newtypes::FileHandle
FileHandle(n) == [fh |-> n]

\* Resource::open through the cell's wrapper: FileResource delegates to
\* File::open, which StaticFile leaves at the default Ok(FileHandle(0));
\* DirectoryResource answers EBADF; the Resource trait's default is Ok too.
Resource_open(cs, c) ==
    CASE cs[c].type = "StaticFile" ->
            [result |-> Ok(FileHandle(0)),
             calls |-> <<Call(c, "Resource", "open"), Call(c, "File", "open")>>]
      [] cs[c].type = "StaticDirectory" ->
            [result |-> Err("EBADF"), calls |-> <<Call(c, "Resource", "open")>>]
      [] OTHER -> [result |-> Ok(FileHandle(0)), calls |-> <<Call(c, "Resource", "open")>>]

\* Resource::close through the cell's wrapper, like open.
Resource_close(cs, c) ==
    CASE cs[c].type = "StaticFile" ->
            [result |-> Ok(<<>>),
             calls |-> <<Call(c, "Resource", "close"), Call(c, "File", "close")>>]
      [] cs[c].type = "StaticDirectory" ->
            [result |-> Err("EBADF"), calls |-> <<Call(c, "Resource", "close")>>]
      [] OTHER -> [result |-> Ok(<<>>), calls |-> <<Call(c, "Resource", "close")>>]

(***************************************************************************)
(* impl Filesystem for EasyFuse: each operator gives the resource cells    *)
(* after the call, the traced result and the reply.                        *)
(***************************************************************************)
ReplyError(e) == [tag |-> "error", code |-> e]

\* Filesystem::getattr
fs_getattr(ns, cs, ino, g) ==
    LET node == resolve(ns, ino) IN
    IF node.tag = "None"
    THEN [cells |-> cs, result |-> NoneV, reply |-> ReplyError("ENOENT"), calls |-> <<>>]
    ELSE
        LET x == Resource_getattr(cs, node.v, g) IN
        IF x.result.tag = "Err"
        THEN [cells |-> x.cells, result |-> x.result, calls |-> x.calls,
              reply |-> ReplyError(x.result.code)]
        ELSE
            LET attr == stamp_ino(x.result.v, ino) IN
            [cells |-> x.cells, result |-> x.result, calls |-> x.calls,
             reply |-> [tag |-> "attr", ttl |-> attr.ttl, attr |-> attr.inner]]

\* The loop of Filesystem::readdir: reply.add for every entry after the first
\* `skip`, numbered by i from 1.
RECURSIVE reply_add_all(_, _, _, _)
reply_add_all(entries, k, i, acc) ==
    IF k > Len(entries) THEN acc
    ELSE reply_add_all(entries, k + 1, i + 1,
            Append(acc, [ino |-> entries[k].inode, offset |-> i,
                         kind |-> entries[k].filetype, name |-> entries[k].name]))

\* A faulty variant: the positions are counted from 0.
emit_from_zero(entries, offset) ==
    reply_add_all(entries, to_usize_or_0(offset) + 1, 0, <<>>)
\* entries.into_iter().skip(offset.try_into().unwrap_or(0)), then the loop
emit(entries, offset) ==
    reply_add_all(entries, to_usize_or_0(offset) + 1, 1, <<>>)

\* A faulty variant: ".." is not seeded.
seed_dot_only(ino) == <<DirEntry(ino, "Directory", ".")>>
\* The vector Filesystem::readdir seeds before it calls the resource.
seed(ino) == <<DirEntry(ino, "Directory", "."), DirEntry(ino, "Directory", "..")>>

\* Filesystem::readdir
fs_readdir(ns, cs, ino, offset, order, g) ==
    LET node == resolve(ns, ino) IN
    IF node.tag = "None"
    THEN [cells |-> cs, result |-> NoneV, reply |-> ReplyError("ENOENT"), calls |-> <<>>]
    ELSE
        LET x == Resource_readdir(ns, cs, node.v, order, seed(ino), g) IN
        IF x.result.tag = "Panic"
        THEN [cells |-> x.cells, result |-> x.result, calls |-> x.calls, reply |-> x.result]
        ELSE IF x.result.tag = "Err"
        THEN [cells |-> x.cells, result |-> x.result, calls |-> x.calls,
              reply |-> ReplyError(x.result.code)]
        ELSE [cells |-> x.cells, result |-> x.result, calls |-> x.calls,
              reply |-> [tag |-> "directory", entries |-> emit(x.output, offset)]]

\* A faulty variant: the assertion is compiled out.
read_assert_off(buf, len) == TRUE
\* assert!(buf.len() <= len)
read_assert(buf, len) == Len(buf) <= len

\* Filesystem::read
fs_read(ns, cs, ino, uid, gid, offset, len, b) ==
    LET node == resolve(ns, ino) IN
    IF node.tag = "None"
    THEN [cells |-> cs, result |-> NoneV, reply |-> ReplyError("ENOENT"), calls |-> <<>>]
    ELSE
        LET x == Resource_read(cs, node.v, uid, gid, offset, len, b)
            result == x.result
        IN
        IF result.tag = "Err"
        THEN [cells |-> cs, result |-> result, calls |-> x.calls,
              reply |-> ReplyError(result.code)]
        ELSE IF ~read_assert(result.v, len)
        THEN [cells |-> cs, result |-> result, calls |-> x.calls,
              reply |-> Panic("Number of read bytes should never exceed numbers of requested bytes")]
        ELSE [cells |-> cs, result |-> result, calls |-> x.calls,
              reply |-> [tag |-> "data", data |-> result.v]]

\* Filesystem::lookup
fs_lookup(ns, cs, parent, name, g) ==
    LET node == resolve(ns, parent) IN
    IF node.tag = "None"
    THEN [cells |-> cs, result |-> NoneV, reply |-> ReplyError("ENOENT"), calls |-> <<>>]
    ELSE
        LET x == Resource_lookup(ns, cs, node.v, name, g) IN
        IF x.result.tag = "Panic"
        THEN [cells |-> x.cells, result |-> x.result, calls |-> x.calls, reply |-> x.result]
        ELSE IF x.result.tag = "Err"
        THEN [cells |-> x.cells, result |-> x.result, calls |-> x.calls,
              reply |-> ReplyError(x.result.code)]
        ELSE [cells |-> x.cells, result |-> x.result, calls |-> x.calls,
              reply |-> [tag |-> "entry", ttl |-> x.result.v.attr.ttl,
                         attr |-> x.result.v.attr.inner,
                         generation |-> x.result.v.generation]]

\* Filesystem::symlink
fs_symlink(ns, cs, parent, y) ==
    LET node == resolve(ns, parent) IN
    IF node.tag = "None"
    THEN [cells |-> cs, result |-> NoneV, reply |-> ReplyError("ENOENT"), calls |-> <<>>]
    ELSE
        LET x == Resource_symlink(cs, node.v, y) IN
        IF x.result.tag = "Err"
        THEN [cells |-> cs, result |-> x.result, calls |-> x.calls,
              reply |-> ReplyError(x.result.code)]
        ELSE
            LET attr == stamp_ino(x.result.v.attr, parent) IN
            [cells |-> cs, result |-> x.result, calls |-> x.calls,
             reply |-> [tag |-> "entry", ttl |-> attr.ttl, attr |-> attr.inner,
                        generation |-> x.result.v.generation]]

\* Filesystem::open
fs_open(ns, cs, ino) ==
    LET node == resolve(ns, ino) IN
    IF node.tag = "None"
    THEN [cells |-> cs, result |-> NoneV, reply |-> ReplyError("ENOENT"), calls |-> <<>>]
    ELSE
        LET x == Resource_open(cs, node.v) IN
        IF x.result.tag = "Err"
        THEN [cells |-> cs, result |-> x.result, calls |-> x.calls,
              reply |-> ReplyError(x.result.code)]
        ELSE [cells |-> cs, result |-> x.result, calls |-> x.calls,
              reply |-> [tag |-> "opened", fh |-> x.result.v.fh, flags |-> 0]]

\* Filesystem::release
fs_release(ns, cs, ino) ==
    LET node == resolve(ns, ino) IN
    IF node.tag = "None"
    THEN [cells |-> cs, result |-> NoneV, reply |-> ReplyError("ENOENT"), calls |-> <<>>]
    ELSE
        LET x == Resource_close(cs, node.v) IN
        IF x.result.tag = "Err"
        THEN [cells |-> cs, result |-> x.result, calls |-> x.calls,
              reply |-> ReplyError(x.result.code)]
        ELSE [cells |-> cs, result |-> x.result, calls |-> x.calls,
              reply |-> [tag |-> "ok"]]

(***************************************************************************)
(* The mounted filesystem.  fuse::mount consumes the EasyFuse the           *)
(* application built, so the dispatch methods run on a registry that the   *)
(* application's main has finished: examples/static.rs, with its choices   *)
(* opened up.                                                              *)
(***************************************************************************)

\* StaticDirectory::bind
bind(r, path, resource) == [r EXCEPT !.binds = Insert(r.binds, path, resource)]

\* The resources main registers, in order; the k-th is bound under KidNames[k].
ChildLists == {<<>>, <<"fileA">>, <<"fileA", "fileB">>, <<"obj", "fileB">>,
               <<"dir", "fileA">>, <<"obj">>, <<"dir">>}
KidNames == <<"a", "b">>

\* main's choices: the children, a further bind of "b" to an identifier of the
\* application's choosing, whether the first child is unregistered again, and
\* the resource set as root.
Setups ==
    [kids : ChildLists,
     rebind : {NoneV, SomeV(ROOT_ID), SomeV(U64Max - 1)},
     drop : BOOLEAN,
     root : {SomeV("dir")}]

\* root.bind(name, fuse.register(kid)) for the kids from the k-th on
RECURSIVE register_kids(_, _, _)
register_kids(st, kids, k) ==
    IF k > Len(kids) THEN st
    ELSE
        LET r == try_register(st.nodes, st.next_inode, kids[k]) IN
        register_kids(
            [st EXCEPT !.nodes = r.nodes,
                       !.next_inode = r.next_inode,
                       !.returned = Append(st.returned, r.ret.v),
                       !.cells = [st.cells EXCEPT
                                    !["dir"] = bind(st.cells["dir"], KidNames[k], r.ret.v)]],
            kids, k + 1)

\* examples/static.rs main up to fuse::mount
main(p) ==
    LET s1 == register_kids(default, p.kids, 1)
        s2 == IF p.rebind.tag = "None" THEN s1
              ELSE [s1 EXCEPT !.cells = [s1.cells EXCEPT
                                  !["dir"] = bind(s1.cells["dir"], "b", p.rebind.v)]]
        s3 == IF p.drop /\ Len(s2.returned) > 0
              THEN LET u == unregister(s2.nodes, s2.next_inode, s2.returned[1]) IN
                   [s2 EXCEPT !.nodes = u.nodes, !.next_inode = u.next_inode,
                              !.removed = {s2.returned[1]}]
              ELSE s2
        s4 == IF p.root.tag = "None" THEN s3
              ELSE LET r == set_root(s3.nodes, s3.next_inode, p.root.v) IN
                   [s3 EXCEPT !.nodes = r.nodes, !.next_inode = r.next_inode]
    IN  s4

InitFs ==
    \E p \in Setups :
      \E st \in {main(p)} :
        /\ nodes = st.nodes
        /\ next_inode = st.next_inode
        /\ cells = st.cells
        /\ returned = st.returned
        /\ removed = st.removed
        /\ last = [op |-> "mount", ino |-> 0, arg |-> NoneV, ret |-> NoneV]
        /\ borrowed = Unborrowed
        /\ frame = NoneV

\* The iteration orders of a HashMap with the keys S.
Orders(S) ==
    {o \in [1..Cardinality(S) -> S] : \A i, j \in 1..Cardinality(S) : o[i] = o[j] => i = j}

\* The answers the application's Resource can give during a call on ino: only
\* "obj" answers by itself.
GetattrAnswers(ns) ==
    IF \E i \in DOMAIN ns : ns[i] = "obj" THEN ObjGetattr ELSE {Err("ENOSYS")}
ReadAnswers(ns, ino) ==
    IF ino \in DOMAIN ns /\ ns[ino] = "obj" THEN ObjRead ELSE {Err("ENOSYS")}
BindsAt(ns, cs, ino) ==
    IF ino \in DOMAIN ns THEN DOMAIN cs[ns[ino]].binds ELSE {}

Getattr ==
    /\ ~Panicked
    /\ \E ino \in DispatchInodes, g \in GetattrAnswers(nodes) :
         \E x \in {fs_getattr(nodes, cells, ino, g)} :
         /\ cells' = x.cells
         /\ last' = [op |-> "getattr", ino |-> ino, arg |-> [g |-> g],
                     result |-> x.result, calls |-> x.calls, ret |-> x.reply]
    /\ UNCHANGED <<nodes, next_inode, returned, removed, borrowed, frame>>

Readdir ==
    /\ ~Panicked
    /\ \E ino \in DispatchInodes, offset \in DirOffsets, g \in GetattrAnswers(nodes) :
       \E order \in Orders(BindsAt(nodes, cells, ino)) :
         \E x \in {fs_readdir(nodes, cells, ino, offset, order, g)} :
         /\ cells' = x.cells
         /\ last' = [op |-> "readdir", ino |-> ino,
                     arg |-> [offset |-> offset, order |-> order, g |-> g],
                     result |-> x.result, calls |-> x.calls, ret |-> x.reply]
    /\ UNCHANGED <<nodes, next_inode, returned, removed, borrowed, frame>>

Read ==
    /\ ~Panicked
    /\ \E ino \in DispatchInodes, caller \in Callers, offset \in ReadOffsets, len \in ReadLens :
       \E b \in ReadAnswers(nodes, ino) :
         \E x \in {fs_read(nodes, cells, ino, caller[1], caller[2], offset, len, b)} :
         /\ cells' = x.cells
         /\ last' = [op |-> "read", ino |-> ino,
                     arg |-> [uid |-> caller[1], gid |-> caller[2],
                              offset |-> offset, len |-> len],
                     result |-> x.result, calls |-> x.calls, ret |-> x.reply]
    /\ UNCHANGED <<nodes, next_inode, returned, removed, borrowed, frame>>

SymlinkAnswers(ns, ino) ==
    IF ino \in DOMAIN ns /\ ns[ino] = "obj" THEN ObjSymlink ELSE {Err("ENOSYS")}

Lookup ==
    /\ ~Panicked
    /\ \E parent \in DispatchInodes, name \in Names, g \in GetattrAnswers(nodes) :
         \E x \in {fs_lookup(nodes, cells, parent, name, g)} :
         /\ cells' = x.cells
         /\ last' = [op |-> "lookup", ino |-> parent, arg |-> [name |-> name, g |-> g],
                     result |-> x.result, calls |-> x.calls, ret |-> x.reply]
    /\ UNCHANGED <<nodes, next_inode, returned, removed, borrowed, frame>>

Symlink ==
    /\ ~Panicked
    /\ \E parent \in DispatchInodes :
       \E y \in SymlinkAnswers(nodes, parent) :
         \E x \in {fs_symlink(nodes, cells, parent, y)} :
         /\ cells' = x.cells
         /\ last' = [op |-> "symlink", ino |-> parent, arg |-> [y |-> y],
                     result |-> x.result, calls |-> x.calls, ret |-> x.reply]
    /\ UNCHANGED <<nodes, next_inode, returned, removed, borrowed, frame>>

Open ==
    /\ ~Panicked
    /\ \E ino \in DispatchInodes :
         \E x \in {fs_open(nodes, cells, ino)} :
         /\ cells' = x.cells
         /\ last' = [op |-> "open", ino |-> ino, arg |-> NoneV,
                     result |-> x.result, calls |-> x.calls, ret |-> x.reply]
    /\ UNCHANGED <<nodes, next_inode, returned, removed, borrowed, frame>>

Release ==
    /\ ~Panicked
    /\ \E ino \in DispatchInodes :
         \E x \in {fs_release(nodes, cells, ino)} :
         /\ cells' = x.cells
         /\ last' = [op |-> "release", ino |-> ino, arg |-> NoneV,
                     result |-> x.result, calls |-> x.calls, ret |-> x.reply]
    /\ UNCHANGED <<nodes, next_inode, returned, removed, borrowed, frame>>

NextFs ==
    \/ Getattr
    \/ Readdir
    \/ Read
    \/ Lookup
    \/ Symlink
    \/ Open
    \/ Release

SpecFs == InitFs /\ [][NextFs]_vars

Next ==
    \/ TryRegister
    \/ Register
    \/ Unregister
    \/ Resolve
    \/ SetRoot

Spec == Init /\ [][Next]_vars

(***************************************************************************)
(* The registry's contracts, checked under Spec.                           *)
(***************************************************************************)
Registers == {"register", "try_register"}

\* C1: the identifiers register and try_register return, whatever unregister,
\* resolve and set_root calls come between them, are strictly increasing (so
\* pairwise distinct), never ROOT_ID, and the first one is 2.
C1_ReturnedIdsIncrease ==
    /\ \A k \in 1..Len(returned) : returned[k] # ROOT_ID
    /\ \A j, k \in 1..Len(returned) : j < k => returned[j] < returned[k]
    /\ Len(returned) > 0 => returned[1] = 2
    /\ (last.op \in Registers /\ last.ret.tag = "Some") =>
           (Len(returned) > 0 /\ last.ret.v = returned[Len(returned)])

\* Two identifiers were returned, with an unregister and a set_root among the calls.
C1_Witness ==
    /\ Len(returned) >= 2
    /\ removed # {}
    /\ ROOT_ID \in DOMAIN nodes
    /\ last.op \in Registers
    /\ last.ret.tag = "Some"

\* C2: right after unregister(i) the identifier i resolves to nothing, and no
\* register or try_register call returns an identifier whose binding an
\* earlier unregister removed.
C2_NeverReused ==
    [][/\ (last'.op = "unregister" => resolve(nodes', last'.ino).tag = "None")
       /\ ((last'.op \in Registers /\ last'.ret.tag = "Some") =>
              last'.ret.v \notin removed)]_vars

\* A register call returned an identifier after the binding of a smaller one,
\* which it had returned before, was removed.
C2_Witness ==
    /\ last.op \in Registers
    /\ last.ret.tag = "Some"
    /\ \E i \in removed : i # ROOT_ID /\ i < last.ret.v /\ i \notin DOMAIN nodes

\* C3 as stated: once identifier 1 is bound it resolves in every later state,
\* and any other bound identifier resolves until it is unregistered.
C3_RootAlwaysResolves ==
    [][/\ (ROOT_ID \in DOMAIN nodes => ROOT_ID \in DOMAIN nodes')
       /\ \A i \in DOMAIN nodes \ {ROOT_ID} :
              i \in DOMAIN nodes' \/ (last'.op = "unregister" /\ last'.ino = i)]_vars

\* C3, amended: a bound identifier, the root included, stays bound until
\* unregister is called on that identifier; set_root leaves identifier 1 bound
\* and register leaves the identifier it returns bound.
C3_ResolvesUntilUnregistered ==
    [][/\ \A i \in DOMAIN nodes :
              resolve(nodes', i).tag = "Some" \/ (last'.op = "unregister" /\ last'.ino = i)
       /\ (last'.op = "set_root" => resolve(nodes', ROOT_ID).tag = "Some")
       /\ ((last'.op \in Registers /\ last'.ret.tag = "Some") =>
              resolve(nodes', last'.ret.v).tag = "Some")]_vars

\* The root and a registered identifier are bound right after another
\* identifier was unregistered.
C3_Witness ==
    /\ last.op = "unregister"
    /\ last.ret.tag = "Some"
    /\ ROOT_ID \in DOMAIN nodes
    /\ \E i \in DOMAIN nodes : i > last.ino

\* What try_register does when the counter can still be incremented.
Allocated(ns, nx, ns2, nx2, call) ==
    /\ call.ret = SomeV(nx)
    /\ nx2 = nx + 1
    /\ DOMAIN ns2 = DOMAIN ns \cup {nx}
    /\ ns2[nx] = call.arg.v
    /\ \A i \in DOMAIN ns \ {nx} : ns2[i] = ns[i]

\* C4: with the counter at its maximum try_register returns None and changes
\* neither the map nor the counter, and register panics; otherwise both return
\* the counter's value, bind it and advance the counter by one.
C4_OverflowIsAbsence ==
    [][/\ (last'.op = "try_register" =>
              IF next_inode = U64Max
              THEN last'.ret.tag = "None" /\ nodes' = nodes /\ next_inode' = next_inode
              ELSE Allocated(nodes, next_inode, nodes', next_inode', last'))
       /\ (last'.op = "register" =>
              IF next_inode = U64Max
              THEN last'.ret.tag = "Panic" /\ nodes' = nodes /\ next_inode' = next_inode
              ELSE Allocated(nodes, next_inode, nodes', next_inode', last'))]_vars

\* try_register answered None with the counter exhausted.
C4_Witness ==
    /\ last.op = "try_register"
    /\ last.ret.tag = "None"
    /\ next_inode = U64Max
    /\ Len(returned) = U64Max - 2

\* C5: set_root binds identifier 1 to the resource given, returns what 1 was
\* bound to before (None if nothing), and changes neither the counter nor any
\* other binding.
C5_SetRootRebinds ==
    [][last'.op = "set_root" =>
          /\ DOMAIN nodes' = DOMAIN nodes \cup {ROOT_ID}
          /\ nodes'[ROOT_ID] = last'.arg.v
          /\ last'.ret = (IF ROOT_ID \in DOMAIN nodes THEN SomeV(nodes[ROOT_ID]) ELSE NoneV)
          /\ next_inode' = next_inode
          /\ \A i \in DOMAIN nodes \ {ROOT_ID} : nodes'[i] = nodes[i]]_vars

\* A later set_root returned the resource bound before, another one than it
\* was given, with other identifiers bound.
C5_Witness ==
    /\ last.op = "set_root"
    /\ last.ret.tag = "Some"
    /\ last.ret.v # last.arg.v
    /\ nodes[ROOT_ID] = last.arg.v
    /\ Cardinality(DOMAIN nodes) >= 2

(***************************************************************************)
(* The dispatcher's contracts, checked under SpecFs.                       *)
(***************************************************************************)

\* The resource bound to the identifier of the last call.
Target == cells[nodes[last.ino]]

\* C6: a get-attributes dispatch that succeeds emits the attributes the
\* resource returned with the inode field replaced by the identifier asked
\* about, and the resource's trust duration.
C6_GetattrStampsInode ==
    (last.op = "getattr" /\ last.ret.tag = "attr") =>
        /\ last.ino \in DOMAIN nodes
        /\ last.result.tag = "Ok"
        /\ last.ret.attr.ino = last.ino
        /\ last.ret.ttl = last.result.v.ttl
        /\ \A f \in {"size", "blocks", "kind", "perm", "nlink", "uid", "gid"} :
               last.ret.attr[f] = last.result.v.inner[f]

\* get-attributes on the root succeeded though the directory had set another
\* inode value in its record.
C6_Witness ==
    /\ last.op = "getattr"
    /\ last.ino = ROOT_ID
    /\ last.ret.tag = "attr"
    /\ last.result.v.inner.ino # ROOT_ID
    /\ last.ret.attr.ino = ROOT_ID

\* The "." and ".." entries of a listing of identifier ino at positions 1, 2.
StartsWithDots(entries, ino) ==
    /\ Len(entries) >= 2
    /\ entries[1] = [ino |-> ino, offset |-> 1, kind |-> "Directory", name |-> "."]
    /\ entries[2] = [ino |-> ino, offset |-> 2, kind |-> "Directory", name |-> ".."]
    /\ \A j \in 3..Len(entries) : entries[j].name \notin {".", ".."}

\* C7 as stated: every list-entries dispatch that succeeds emits "." and then
\* "..", both directories with the identifier asked about, before any child.
C7_AlwaysStartsWithDots ==
    (last.op = "readdir" /\ last.ret.tag = "directory") =>
        StartsWithDots(last.ret.entries, last.ino)

\* C7, amended: so does every list-entries dispatch that succeeds with an
\* offset of 0 or less.
C7_StartsWithDotsAtOffsetZero ==
    (last.op = "readdir" /\ last.ret.tag = "directory" /\ last.arg.offset <= 0) =>
        StartsWithDots(last.ret.entries, last.ino)

\* A listing from offset 0 emitted the two entries and then children.
C7_Witness ==
    /\ last.op = "readdir"
    /\ last.ret.tag = "directory"
    /\ last.arg.offset = 0
    /\ Len(last.ret.entries) = 4

\* The kind a child's getattr answers during a listing.
ChildKind(c, g) ==
    CASE cells[c].type = "StaticFile" -> "RegularFile"
      [] cells[c].type = "StaticDirectory" -> "Directory"
      [] OTHER -> g.v.inner.kind

\* The full sequence of a listing: ".", "..", then the children in the order
\* the directory iterated over its binds.
FullListing ==
    LET binds == Target.binds
        order == last.arg.order
    IN  [j \in 1..(2 + Len(order)) |->
            IF j = 1 THEN [ino |-> last.ino, kind |-> "Directory", name |-> "."]
            ELSE IF j = 2 THEN [ino |-> last.ino, kind |-> "Directory", name |-> ".."]
            ELSE [ino |-> binds[order[j - 2]],
                  kind |-> ChildKind(nodes[binds[order[j - 2]]], last.arg.g),
                  name |-> order[j - 2]]]

\* C8: a list-entries dispatch with offset k >= 0 that succeeds emits the full
\* sequence without its first k entries, in order, the j-th emitted entry at
\* position j; nothing at all when k is the sequence's length or more.
C8_OffsetDropsPrefix ==
    (last.op = "readdir" /\ last.ret.tag = "directory" /\ last.arg.offset >= 0) =>
        LET k == last.arg.offset
            full == FullListing
            n == IF Len(full) > k THEN Len(full) - k ELSE 0
        IN  /\ Len(last.ret.entries) = n
            /\ \A j \in 1..n :
                   last.ret.entries[j] =
                       [ino |-> full[k + j].ino, offset |-> j,
                        kind |-> full[k + j].kind, name |-> full[k + j].name]

\* Offset 1 on the root with two bound children: "..", then both children.
C8_Witness ==
    /\ last.op = "readdir"
    /\ last.ino = ROOT_ID
    /\ last.arg.offset = 1
    /\ last.ret.tag = "directory"
    /\ Len(last.ret.entries) = 3
    /\ last.ret.entries[1].name = ".."
    /\ {last.ret.entries[2].name, last.ret.entries[3].name} = {"a", "b"}

\* C9: a read of a static file at offset o >= 0 for l bytes that succeeds
\* emits min(l, n - o) bytes, the content from o on; no read emits more than
\* l bytes, and a resource that returns more than l bytes makes the call panic.
C9_ReadWithinLength ==
    last.op = "read" =>
        /\ (last.ret.tag = "data" /\ Target.type = "StaticFile" /\ last.arg.offset >= 0) =>
               LET n == Len(Target.content)
                   o == last.arg.offset
                   l == last.arg.len
                   m == IF l <= n - o THEN l ELSE n - o
               IN  /\ Len(last.ret.data) = m
                   /\ \A j \in 1..m : last.ret.data[j] = Target.content[o + j]
        /\ (last.ret.tag = "data" => Len(last.ret.data) <= last.arg.len)
        /\ (last.result.tag = "Ok" /\ Len(last.result.v) > last.arg.len) =>
               last.ret.tag = "Panic"

\* 30 bytes of content, offset 25, length 100: 5 bytes.
C9_Witness ==
    /\ last.op = "read"
    /\ last.ino \in DOMAIN nodes
    /\ Target.type = "StaticFile"
    /\ Len(Target.content) = 30
    /\ last.arg.offset = 25
    /\ last.arg.len = 100
    /\ last.ret.tag = "data"
    /\ Len(last.ret.data) = 5

\* The caller of the last read has read permission on the static file read.
ReadPermitted ==
    /\ last.op = "read"
    /\ last.ino \in DOMAIN nodes
    /\ Target.type = "StaticFile"
    /\ ensure_access(last.arg.uid, last.arg.gid, Target.attr.inner, READ).tag = "Ok"

\* C10 as stated: a permitted read of a static file at an offset equal to the
\* content's length or beyond it is answered ERANGE.
C10_RangeErrorAtOrBeyondEnd ==
    (ReadPermitted /\ last.arg.offset >= Len(Target.content)) =>
        last.ret = ReplyError("ERANGE")

\* C10, amended: an offset beyond the content's length is answered ERANGE, for
\* every length; an offset equal to it is answered with no bytes.
C10_RangeErrorBeyondEnd ==
    /\ (ReadPermitted /\ last.arg.offset > Len(Target.content)) =>
           last.ret = ReplyError("ERANGE")
    /\ (ReadPermitted /\ last.arg.offset = Len(Target.content)) =>
           last.ret = [tag |-> "data", data |-> <<>>]

\* A permitted read one byte past the end of the 30 bytes was answered ERANGE.
C10_Witness ==
    /\ ReadPermitted
    /\ Len(Target.content) = 30
    /\ last.arg.offset = 31
    /\ last.arg.len = 100
    /\ last.ret = ReplyError("ERANGE")

(***************************************************************************)
(* The permission evaluator on its own: Request::perms and                 *)
(* Request::ensure_access for every caller, owner, 9-bit mode and required *)
(* permission set.                                                         *)
(***************************************************************************)
Modes == 0..511
Uids == {1, 2}
Gids == {1, 2}
PermissionSets == 0..7

\* A request by (uid, gid) about a resource whose FileAttr has the owner 1,
\* the group 1 and the mode perm, asking for the permissions `required`.
InitPerms ==
    /\ borrowed = Unborrowed
    /\ frame = NoneV
    /\ nodes = default.nodes
    /\ next_inode = default.next_inode
    /\ cells = default.cells
    /\ returned = default.returned
    /\ removed = default.removed
    /\ \E uid \in Uids, gid \in Gids, perm \in Modes, required \in PermissionSets :
         last = [op |-> "request", ino |-> 0,
                 arg |-> [uid |-> uid, gid |-> gid, required |-> required,
                          attrs |-> [uid |-> 1, gid |-> 1, perm |-> perm]],
                 ret |-> NoneV]

PermsCall ==
    /\ last.op = "request"
    /\ last' = [last EXCEPT !.op = "perms",
                            !.ret = SomeV(perms(last.arg.uid, last.arg.gid, last.arg.attrs))]
    /\ UNCHANGED <<nodes, next_inode, cells, returned, removed, borrowed, frame>>

EnsureAccessCall ==
    /\ last.op = "request"
    /\ last' = [last EXCEPT !.op = "ensure_access",
                            !.ret = ensure_access(last.arg.uid, last.arg.gid,
                                                  last.arg.attrs, last.arg.required)]
    /\ UNCHANGED <<nodes, next_inode, cells, returned, removed, borrowed, frame>>

NextPerms ==
    \/ PermsCall
    \/ EnsureAccessCall

SpecPerms == InitPerms /\ [][NextPerms]_vars

\* Bit b (0 execute, 1 write, 2 read) of the triad that starts at bit `shift`.
ModeBit(perm, shift, b) == (perm \div (2 ^ (shift + b))) % 2 = 1

\* C12: ensure_access succeeds iff every required bit is set in the owner
\* triad when the uid matches, else in the group triad when the gid matches,
\* else in the other triad, and fails with EPERM otherwise; 0o600 (384) lets
\* the owner read and write but not execute, 0o644 (420) lets a group member
\* read but not write.
C12_EnsureAccessByTriad ==
    last.op = "ensure_access" =>
        LET a == last.arg
            shift == IF a.uid = a.attrs.uid THEN 6
                     ELSE IF a.gid = a.attrs.gid THEN 3 ELSE 0
            granted == \A b \in 0..2 :
                          ((a.required \div (2 ^ b)) % 2 = 1) => ModeBit(a.attrs.perm, shift, b)
        IN  /\ last.ret = (IF granted THEN Ok(<<>>) ELSE Err("EPERM"))
            /\ (a.attrs.perm = 384 /\ a.uid = a.attrs.uid) =>
                   /\ a.required \in {READ, WRITE, READ + WRITE} => last.ret.tag = "Ok"
                   /\ a.required = EXECUTE => last.ret = Err("EPERM")
            /\ (a.attrs.perm = 420 /\ a.uid # a.attrs.uid /\ a.gid = a.attrs.gid) =>
                   /\ a.required = READ => last.ret.tag = "Ok"
                   /\ a.required = WRITE => last.ret = Err("EPERM")

\* Mode 0o644, another uid but the resource's gid: write was refused.
C12_Witness ==
    /\ last.op = "ensure_access"
    /\ last.arg.attrs.perm = 420
    /\ last.arg.uid # last.arg.attrs.uid
    /\ last.arg.gid = last.arg.attrs.gid
    /\ last.arg.required = WRITE
    /\ last.ret = Err("EPERM")

(***************************************************************************)
(* The wrappers and the dispatcher's error paths, checked under SpecFs.    *)
(***************************************************************************)
\* The type of the resource the last dispatch was aimed at, when it is bound.
TargetIs(type) == last.ino \in DOMAIN nodes /\ cells[nodes[last.ino]].type = type

\* The last dispatch entered a method of the object wrapped in the target.
WrappedInvoked ==
    \E k \in 1..Len(last.calls) :
        /\ last.calls[k].cell = nodes[last.ino]
        /\ last.calls[k].layer \in {"File", "Directory"}

\* C11: lookup, readdir and symlink dispatched to a FileResource reply EBADF
\* (never ENOSYS), and open, release and read dispatched to a
\* DirectoryResource reply EBADF; the wrapped object is not entered and no
\* payload is replied.
C11_WrongKindIsEBADF ==
    /\ (last.op \in {"lookup", "readdir", "symlink"} /\ TargetIs("StaticFile")) =>
           /\ last.ret = ReplyError("EBADF")
           /\ last.result = Err("EBADF")
           /\ ~WrappedInvoked
    /\ (last.op \in {"open", "release", "read"} /\ TargetIs("StaticDirectory")) =>
           /\ last.ret = ReplyError("EBADF")
           /\ last.result = Err("EBADF")
           /\ ~WrappedInvoked

\* A lookup was dispatched to a registered file and answered EBADF by the wrapper.
C11_Witness ==
    /\ last.op = "lookup"
    /\ TargetIs("StaticFile")
    /\ last.ret = ReplyError("EBADF")
    /\ last.calls = <<Call(nodes[last.ino], "Resource", "lookup")>>

DispatchOps == {"getattr", "lookup", "readdir", "symlink", "open", "release", "read"}

\* C13: each of the seven dispatch methods, called with an identifier that
\* is not bound in the registry (never bound, or unregistered), replies ENOENT
\* from the dispatcher itself: no resource method is entered, nothing else is
\* replied, and nodes, next_inode and the resources are unchanged.
C13_UnboundRepliesENOENT ==
    [][(last'.op \in DispatchOps /\ last'.ino \notin DOMAIN nodes) =>
           /\ last'.ret = ReplyError("ENOENT")
           /\ last'.calls = <<>>
           /\ last'.result = NoneV
           /\ nodes' = nodes
           /\ next_inode' = next_inode
           /\ cells' = cells]_vars

\* A read of an identifier that main registered and unregistered again.
C13_Witness ==
    /\ last.op = "read"
    /\ last.ino \in removed
    /\ last.ino \notin DOMAIN nodes
    /\ last.ret = ReplyError("ENOENT")
    /\ last.calls = <<>>

\* The last dispatch was a lookup on a bound StaticDirectory of a name its
\* binding table holds for an identifier that is bound in the registry.
LookupOfRegisteredChild ==
    /\ last.op = "lookup"
    /\ TargetIs("StaticDirectory")
    /\ last.arg.name \in DOMAIN Target.binds
    /\ Target.binds[last.arg.name] \in DOMAIN nodes

\* The claim as stated: such a lookup always replies the entry.
C15_LookupAlwaysEmitsChild ==
    LookupOfRegisteredChild =>
        /\ last.ret.tag = "entry"
        /\ last.ret.attr.ino = Target.binds[last.arg.name]
        /\ last.ret.generation = 0

\* C15: a lookup dispatched to a StaticDirectory for a name bound to a
\* registered identifier c replies an entry whose attr.ino is c (neither
\* the parent's identifier nor the value the child's own attributes hold) and
\* whose generation is 0, provided c's resource is not the directory itself
\* and its getattr succeeds; when that getattr fails its error is replied, and
\* when c is the directory itself the call panics.  A name that is not in the
\* binding table replies ENOENT.
C15_LookupEmitsChildInode ==
    /\ LookupOfRegisteredChild =>
         LET c == Target.binds[last.arg.name]
             child == nodes[c]
             stat == IF cells[child].type = "Resource" THEN last.arg.g
                     ELSE Ok(cells[child].attr)
         IN  IF child = nodes[last.ino]
             THEN last.ret = Panic("already borrowed")
             ELSE IF stat.tag = "Err"
             THEN last.ret = ReplyError(stat.code)
             ELSE /\ last.ret.tag = "entry"
                  /\ last.ret.attr.ino = c
                  /\ last.ret.generation = 0
                  /\ last.ret.attr = [stat.v.inner EXCEPT !.ino = c]
                  /\ last.ret.ttl = stat.v.ttl
    /\ (last.op = "lookup" /\ TargetIs("StaticDirectory")
            /\ last.arg.name \notin DOMAIN Target.binds) =>
           last.ret = ReplyError("ENOENT")

\* A lookup of a child whose identifier differs from the parent's and from
\* the ino value the child's own attributes hold before stamping.
C15_Witness ==
    /\ LookupOfRegisteredChild
    /\ last.ret.tag = "entry"
    /\ last.ret.attr.ino = Target.binds[last.arg.name]
    /\ last.ret.attr.ino # last.ino
    /\ last.ret.attr.ino # cells[nodes[Target.binds[last.arg.name]]].attr.inner.ino
    /\ last.ret.generation = 0

\* The triad of the target's mode selected for the caller of the last read
\* lacks the read bit.
ReadDenied ==
    LET a == Target.attr.inner
        shift == IF last.arg.uid = a.uid THEN 6
                 ELSE IF last.arg.gid = a.gid THEN 3 ELSE 0
    IN  ~ModeBit(a.perm, shift, 2)

\* C17: StaticFile::read checks the caller's permission before the byte
\* range: when the selected triad lacks the read bit, a read dispatch replies
\* EPERM and no bytes, whatever the offset and the length, also for offsets
\* past the end of the content.
C17_PermissionBeforeRange ==
    (last.op = "read" /\ TargetIs("StaticFile") /\ ReadDenied) =>
        /\ last.ret = ReplyError("EPERM")
        /\ last.result = Err("EPERM")

\* A caller without the read bit read past the end of the content.
C17_Witness ==
    /\ last.op = "read"
    /\ TargetIs("StaticFile")
    /\ ReadDenied
    /\ last.arg.offset > Len(Target.content)
    /\ last.ret = ReplyError("EPERM")

\* The target directory binds a name to an identifier that is not bound in
\* the registry.
Dangling(n) == n \in DOMAIN Target.binds /\ Target.binds[n] \notin DOMAIN nodes
HasDangling == \E n \in DOMAIN Target.binds : Dangling(n)

\* What the k-th bind of the last readdir's iteration order does to the loop.
BindOutcome(k) ==
    LET inode == Target.binds[last.arg.order[k]] IN
    IF inode \notin DOMAIN nodes THEN "dangling"
    ELSE IF nodes[inode] = nodes[last.ino] THEN "self"
    ELSE IF cells[nodes[inode]].type = "Resource" /\ last.arg.g.tag = "Err" THEN "error"
    ELSE "ok"
FirstStop == CHOOSE k \in 1..Len(last.arg.order) :
                 /\ BindOutcome(k) # "ok"
                 /\ \A j \in 1..(k - 1) : BindOutcome(j) = "ok"

\* The claim as stated: with a dangling bind, the lookup of that name and
\* every readdir on the directory panic.
C18_DanglingAlwaysPanics ==
    /\ (last.op = "lookup" /\ TargetIs("StaticDirectory") /\ Dangling(last.arg.name)) =>
           last.ret.tag = "Panic"
    /\ (last.op = "readdir" /\ TargetIs("StaticDirectory") /\ HasDangling) =>
           last.ret.tag = "Panic"

\* C18: when a StaticDirectory binds a name to an identifier that is not
\* bound in the registry, a lookup of that name panics ("invalid inode bound
\* to StaticDirectory"), and a readdir on the directory never replies a
\* listing: it panics when the iteration reaches the dangling bind or a
\* bind of the directory itself, unless a child iterated before that fails
\* its getattr, in which case that error is replied.
C18_DanglingBindIsFatal ==
    /\ (last.op = "lookup" /\ TargetIs("StaticDirectory") /\ Dangling(last.arg.name)) =>
           last.ret = Panic("invalid inode bound to StaticDirectory")
    /\ (last.op = "readdir" /\ TargetIs("StaticDirectory") /\ HasDangling) =>
           /\ last.ret.tag # "directory"
           /\ last.ret # ReplyError("ENOENT")
           /\ BindOutcome(FirstStop) = "dangling" =>
                  last.ret = Panic("invalid inode bound to StaticDirectory")
           /\ BindOutcome(FirstStop) = "self" => last.ret = Panic("already borrowed")
           /\ BindOutcome(FirstStop) = "error" => last.ret = ReplyError(last.arg.g.code)

\* A readdir on a directory that still binds an unregistered identifier, with
\* a registered sibling iterated first, panicked.
C18_Witness ==
    /\ last.op = "readdir"
    /\ TargetIs("StaticDirectory")
    /\ \E n \in DOMAIN Target.binds : Dangling(n) /\ Target.binds[n] \in removed
    /\ Len(last.arg.order) = 2
    /\ BindOutcome(1) = "ok"
    /\ last.ret = Panic("invalid inode bound to StaticDirectory")

(***************************************************************************)
(* The registry's implicit invariant, checked under Spec.                  *)
(***************************************************************************)
BoundIdsInRange(ns, nx) ==
    /\ \A i \in DOMAIN ns : i = ROOT_ID \/ (2 <= i /\ i < nx)
    /\ 0 \notin DOMAIN ns
    /\ nx >= 2

\* C19: in every state reached by register, try_register, unregister,
\* resolve and set_root, every bound identifier is 1 or lies in
\* 2..next_inode-1, identifier 0 is not bound, next_inode is at least 2 and
\* no call lowers it; so an identifier that register or try_register returns
\* was not bound before the call, and the call leaves every existing
\* binding (the root's included) as it was.
C19_BoundIdsBelowCounter ==
    [][/\ BoundIdsInRange(nodes, next_inode)
       /\ BoundIdsInRange(nodes', next_inode')
       /\ next_inode' >= next_inode
       /\ (last'.op \in Registers /\ last'.ret.tag = "Some") =>
              /\ last'.ret.v \notin DOMAIN nodes
              /\ last'.ret.v # ROOT_ID
              /\ \A i \in DOMAIN nodes : i \in DOMAIN nodes' /\ nodes'[i] = nodes[i]]_vars

\* register returned an identifier next to a bound root and an earlier child,
\* after an unregister.
C19_Witness ==
    /\ last.op = "register"
    /\ last.ret.tag = "Some"
    /\ last.ret.v + 1 = next_inode
    /\ ROOT_ID \in DOMAIN nodes
    /\ \E i \in DOMAIN nodes : ROOT_ID < i /\ i < last.ret.v
    /\ removed # {}

(***************************************************************************)
(* lookup and readdir followed step by step: the dispatcher's              *)
(* node.borrow_mut(), StaticDirectory's resolve and borrow_mut of each     *)
(* child, the child's getattr and the drop of its RefMut at the end of     *)
(* that statement, and the drop of the node's RefMut before the reply.     *)
(***************************************************************************)

\* A faulty variant: the borrow flag is not consulted.
borrow_mut_unchecked(b, c) == [tag |-> "Ok", borrowed |-> [b EXCEPT ![c] = @ + 1]]
\* RefCell::borrow_mut: panics when the cell is already borrowed.
borrow_mut(b, c) ==
    IF b[c] > 0 THEN Panic("already borrowed")
    ELSE [tag |-> "Ok", borrowed |-> [b EXCEPT ![c] = @ + 1]]

\* A faulty variant: the RefMut is kept alive.
drop_leaked(b, c) == b
\* Drop of the temporary RefMut at the end of its statement.
drop(b, c) == [b EXCEPT ![c] = @ - 1]

\* A panic unwinds the dispatch: every RefMut on its stack is dropped.
unwind(b) == Unborrowed

StepOps == {"lookup", "readdir"}
StepOffsets == {0, 2}

\* The stack frame of a dispatch on the resource `cell` bound at ino.
Frame(op, ino, cell, arg) ==
    [tag |-> "Frame", op |-> op, ino |-> ino, cell |-> cell, arg |-> arg,
     pc |-> "call", todo |-> <<>>, child |-> NoneV,
     output |-> IF op = "readdir" THEN seed(ino) ELSE <<>>, result |-> NoneV]

\* The dispatch ends in a panic.
Panics(f, msg) ==
    /\ last' = [op |-> f.op, ino |-> f.ino, arg |-> f.arg,
                result |-> Panic(msg), ret |-> Panic(msg)]
    /\ borrowed' = unwind(borrowed)
    /\ frame' = NoneV

\* Filesystem::lookup / readdir up to node.borrow_mut()
BeginDispatch ==
    /\ ~Panicked
    /\ frame.tag = "None"
    /\ \E op \in StepOps, ino \in DispatchInodes, name \in Names, offset \in StepOffsets,
          g \in GetattrAnswers(nodes) :
       \E order \in Orders(BindsAt(nodes, cells, ino)) :
         LET arg == IF op = "lookup" THEN [name |-> name, g |-> g]
                    ELSE [offset |-> offset, order |-> order, g |-> g]
             node == resolve(nodes, ino)
         IN  IF node.tag = "None"
             THEN /\ last' = [op |-> op, ino |-> ino, arg |-> arg,
                              result |-> NoneV, ret |-> ReplyError("ENOENT")]
                  /\ UNCHANGED <<borrowed, frame>>
             ELSE \E m \in {borrow_mut(borrowed, node.v)} :
                    IF m.tag = "Panic"
                    THEN Panics(Frame(op, ino, node.v, arg), m.msg)
                    ELSE /\ borrowed' = m.borrowed
                         /\ frame' = Frame(op, ino, node.v, arg)
                         /\ last' = [op |-> op, ino |-> ino, arg |-> arg,
                                     result |-> NoneV, ret |-> NoneV]
    /\ UNCHANGED <<nodes, next_inode, cells, returned, removed>>

\* The wrapper's arm for the method, and StaticDirectory's binds.get(path) or
\* the start of its loop over the binds.
CallResource ==
    /\ frame.tag = "Frame" /\ frame.pc = "call"
    /\ LET type == cells[frame.cell].type
           binds == cells[frame.cell].binds
       IN  frame' =
             IF type = "StaticFile"
             THEN [frame EXCEPT !.pc = "return", !.result = Err("EBADF")]
             ELSE IF type # "StaticDirectory"
             THEN [frame EXCEPT !.pc = "return", !.result = Err("ENOSYS")]
             ELSE IF frame.op = "readdir"
             THEN [frame EXCEPT !.pc = "resolve", !.todo = frame.arg.order]
             ELSE IF frame.arg.name \notin DOMAIN binds
             THEN [frame EXCEPT !.pc = "return", !.result = Err("ENOENT")]
             ELSE [frame EXCEPT !.pc = "resolve", !.todo = <<frame.arg.name>>]
    /\ UNCHANGED <<nodes, next_inode, cells, last, returned, removed, borrowed>>

\* req.fs.resolve(inode).expect(..) and resource.borrow_mut() for the next
\* bind; the loop of readdir ends with Ok(()) when no bind is left.
ResolveChild ==
    /\ frame.tag = "Frame" /\ frame.pc = "resolve"
    /\ IF frame.todo = <<>>
       THEN /\ frame' = [frame EXCEPT !.pc = "return", !.result = Ok(<<>>)]
            /\ UNCHANGED <<last, borrowed>>
       ELSE LET inode == cells[frame.cell].binds[Head(frame.todo)]
                resource == resolve(nodes, inode)
            IN  IF resource.tag = "None"
                THEN Panics(frame, "invalid inode bound to StaticDirectory")
                ELSE \E m \in {borrow_mut(borrowed, resource.v)} :
                       IF m.tag = "Panic"
                       THEN Panics(frame, m.msg)
                       ELSE /\ borrowed' = m.borrowed
                            /\ frame' = [frame EXCEPT !.pc = "getattr",
                                                      !.child = SomeV(resource.v)]
                            /\ UNCHANGED last
    /\ UNCHANGED <<nodes, next_inode, cells, returned, removed>>

\* The child's getattr, the `?`, the stamped result, and the drop of the
\* child's RefMut at the end of the statement.
ChildGetattr ==
    /\ frame.tag = "Frame" /\ frame.pc = "getattr"
    /\ \E stat \in {Resource_getattr(cells, frame.child.v, frame.arg.g)} :
         LET path == Head(frame.todo)
             inode == cells[frame.cell].binds[path]
         IN  /\ cells' = stat.cells
             /\ borrowed' = drop(borrowed, frame.child.v)
             /\ frame' =
                  IF stat.result.tag = "Err"
                  THEN [frame EXCEPT !.pc = "return", !.child = NoneV,
                                     !.result = stat.result]
                  ELSE IF frame.op = "lookup"
                  THEN [frame EXCEPT !.pc = "return", !.child = NoneV,
                                     !.result = Ok(Entry(stamp_ino(stat.result.v, inode)))]
                  ELSE [frame EXCEPT !.pc = "resolve", !.child = NoneV,
                                     !.todo = Tail(frame.todo),
                                     !.output = Append(frame.output,
                                         DirEntry(inode, stat.result.v.inner.kind, path))]
    /\ UNCHANGED <<nodes, next_inode, last, returned, removed>>

\* The node's RefMut is dropped at the end of the dispatcher's statement, then
\* attempt! and the reply.
EndDispatch ==
    /\ frame.tag = "Frame" /\ frame.pc = "return"
    /\ borrowed' = drop(borrowed, frame.cell)
    /\ frame' = NoneV
    /\ last' = [op |-> frame.op, ino |-> frame.ino, arg |-> frame.arg,
                result |-> frame.result,
                ret |-> IF frame.result.tag = "Err" THEN ReplyError(frame.result.code)
                        ELSE IF frame.op = "lookup"
                        THEN [tag |-> "entry", ttl |-> frame.result.v.attr.ttl,
                              attr |-> frame.result.v.attr.inner,
                              generation |-> frame.result.v.generation]
                        ELSE [tag |-> "directory",
                              entries |-> emit(frame.output, frame.arg.offset)]]
    /\ UNCHANGED <<nodes, next_inode, cells, returned, removed>>

NextBorrow ==
    \/ BeginDispatch
    \/ CallResource
    \/ ResolveChild
    \/ ChildGetattr
    \/ EndDispatch

SpecBorrow == InitFs /\ [][NextBorrow]_vars

(***************************************************************************)
(* The borrow discipline, checked under SpecBorrow.                        *)
(***************************************************************************)
\* The step at hand is StaticDirectory's borrow_mut of a child whose cell is
\* already borrowed for this dispatch.
SecondBorrowAttempt ==
    /\ frame.tag = "Frame"
    /\ frame.pc = "resolve"
    /\ frame.todo # <<>>
    /\ LET inode == cells[frame.cell].binds[Head(frame.todo)] IN
       inode \in DOMAIN nodes /\ borrowed[nodes[inode]] > 0

\* C14: when a dispatch goes to borrow mutably a resource that is already
\* borrowed for that dispatch (lookup or readdir on a StaticDirectory that
\* binds a name to itself), the borrow is refused and the call panics: no
\* cell ever has two exclusive borrows at once, and the panicked dispatch
\* replies nothing afterwards.
C14_SecondBorrowPanics ==
    [][/\ \A c \in Cells : borrowed[c] <= 1 /\ borrowed'[c] <= 1
       /\ SecondBorrowAttempt =>
              /\ last'.ret = Panic("already borrowed")
              /\ frame'.tag = "None"
       /\ ~Panicked]_vars

\* A lookup of a name the directory binds to its own identifier panicked.
C14_Witness ==
    /\ last.op = "lookup"
    /\ TargetIs("StaticDirectory")
    /\ last.arg.name \in DOMAIN Target.binds
    /\ Target.binds[last.arg.name] = last.ino
    /\ last.ret = Panic("already borrowed")

\* The cells that are exclusively borrowed.
Borrowed == {c \in Cells : borrowed[c] > 0}

BorrowsOfDispatch ==
    /\ frame.tag = "Frame" =>
           /\ borrowed[frame.cell] = 1
           /\ Borrowed \ {frame.cell} =
                  (IF frame.pc = "getattr" THEN {frame.child.v} ELSE {})
    /\ frame.tag = "None" => Borrowed = {}

\* C16: during a readdir dispatch on a StaticDirectory, beside the directory
\* itself at most one child is exclusively borrowed, and only between its
\* borrow_mut and the end of its getattr, so it is released before the next
\* child is borrowed; when the dispatch is over (reply, error or panic) no
\* cell is borrowed, and the next dispatch gets its borrow of whatever bound
\* resource it is aimed at.
C16_OneChildBorrowedAtATime ==
    [][/\ BorrowsOfDispatch
       /\ BorrowsOfDispatch'
       /\ (frame.tag = "None" /\ last'.ino \in DOMAIN nodes) =>
              /\ frame'.tag = "Frame"
              /\ borrowed'[nodes[last'.ino]] = 1]_vars

\* The second child of a readdir is borrowed, beside the directory, after the
\* first child's entry was pushed.
C16_Witness ==
    /\ frame.tag = "Frame"
    /\ frame.op = "readdir"
    /\ frame.pc = "getattr"
    /\ Len(frame.output) = Len(seed(frame.ino)) + 1
    /\ Borrowed = {frame.cell, frame.child.v}
    /\ frame.child.v # frame.cell
====
